---- MODULE Spec2Model ----
(***************************************************************************)
(* Model of the card-game core of simple_card_game: card.py (cards and the *)
(* factory registry), deck.py (the four shuffle strategies, StandardDeck)  *)
(* and the two game loops game.py and procedure_game.py.                   *)
(*                                                                         *)
(* Python lists are objects: a list handed to a function can be changed by *)
(* it.  A call is therefore modelled on a small memory, a record with the  *)
(* cell "arg" (the list object the caller passed) and the cell "new" (the  *)
(* list object the callee allocated), and a call returns the name of the   *)
(* cell holding its result.                                                *)
(*                                                                         *)
(* Every value drawn from the module random is an explicit argument of the *)
(* operator that models the drawing code, in the order the code draws it.  *)
(***************************************************************************)
EXTENDS Integers, Sequences, FiniteSets, TLC

VARIABLES
    \* one call of a shuffle strategy on a caller's list
    s_strategy, s_cards0, s_mem, s_ref, s_raised, s_op,
    \* one CardFactoryManager
    factories, c_before, c_op, c_key, c_args, c_card, c_factory, c_raised,
    \* one StandardDeck
    deck, strategy, game_deck, card, drawn, created, fresh, raised, op,
    \* one run of game.py or of procedure_game.py
    g_prog, g_pc, SCORE, g_i, currentCard, deckGame, n_drawn, n_asked

shVars == <<s_strategy, s_cards0, s_mem, s_ref, s_raised, s_op>>
cardVars == <<factories, c_before, c_op, c_key, c_args, c_card, c_factory,
              c_raised>>
deckVars == <<deck, strategy, game_deck, card, drawn, created, fresh, raised,
              op>>
gameVars == <<g_prog, g_pc, SCORE, g_i, currentCard, deckGame, n_drawn,
              n_asked>>
vars == <<shVars, cardVars, deckVars, gameVars>>

----------------------------------------------------------------------------
(* Bounds of the model *)

\* longest list handed to a shuffle strategy with every random outcome tried
MaxLen == 4
\* largest swaps parameter of WeakShuffle with every random outcome tried
MaxSwaps == 2
\* number of random.random() outcomes supplied to one RiffleShuffle call
MaxCoins == 6
\* create_deck calls on one deck
MaxCreates == 2
\* get_current_card calls in a row on a freshly created deck
MaxDraws == 4
\* on a deck, the random outcomes tried are those that bring the card at
\* index 0..MaxPick to the front
MaxPick == 1
\* questions asked in one run of a game loop
MaxAsked == 9

\* the values the shuffled lists hold ("cards or comparable primitives")
Elems == {"a", "b", "c"}

----------------------------------------------------------------------------
(* card.py: vocabulary *)

SUITS == <<"Hearts", "Diamonds", "Clubs", "Spades">>
RANKS == <<"2", "3", "4", "5", "6", "7", "8", "9", "10",
           "Jack", "Queen", "King", "Ace">>

----------------------------------------------------------------------------
(* Python list operations *)

Range(s) == {s[i] : i \in DOMAIN s}

\* result[i], result[j] = result[j], result[i]   (0-based i, j)
Swap(s, i, j) == [s EXCEPT ![i + 1] = s[j + 1], ![j + 1] = s[i + 1]]

\* (variant of ListCopy: no copy is made, the result is the list object
\* itself)
ListAlias(mem, src) == [mem |-> mem, ref |-> src]

\* cards.copy(): a new list object with the same elements
ListCopy(mem, src) == [mem |-> [mem EXCEPT !.new = mem[src]], ref |-> "new"]

\* lst.pop(0) on the list object in cell ref
ListPop0(mem, ref) == [mem EXCEPT ![ref] = Tail(@)]

\* the multiset of a sequence: element -> number of occurrences
Multiset(s) == [e \in Range(s) |-> Cardinality({i \in DOMAIN s : s[i] = e})]

----------------------------------------------------------------------------
(* deck.py: the shuffle strategies.  Each returns                          *)
(*   mem    the memory after the call,                                     *)
(*   ref    the cell of the returned list ("none" when the call raised),   *)
(*   raised "none" or the exception.                                       *)

\* RandomShuffle.shuffle; random.shuffle(x) rearranges x in place into the
\* order p: position i receives the element that was at position p[i]
RandomShuffle(mem, src, p) ==
    LET c == ListCopy(mem, src)
        shuffled_cards == c.mem[c.ref]
    IN [mem |-> [c.mem EXCEPT ![c.ref] =
                    [i \in 1..Len(shuffled_cards) |-> shuffled_cards[p[i]]]],
        ref |-> c.ref, raised |-> "none"]

\* (variant of RiffleBody: left.pop() in place of left.pop(0), the left
\* half is taken from its end)
RiffleBodyPopLast(st, coins) ==
    IF st.starved \/ (st.left = <<>> /\ st.right = <<>>) THEN st
    ELSE
      LET ask1 == st.left # <<>> /\ st.right # <<>>
      IN IF ask1 /\ st.k > Len(coins) THEN [st EXCEPT !.starved = TRUE]
         ELSE
           LET takeL == st.left # <<>> /\ (st.right = <<>> \/ coins[st.k])
               k1 == IF ask1 THEN st.k + 1 ELSE st.k
               left1 == IF takeL THEN SubSeq(st.left, 1, Len(st.left) - 1) ELSE st.left
               mixed1 == IF takeL THEN Append(st.mixed, st.left[Len(st.left)])
                                  ELSE st.mixed
               ask2 == st.right # <<>> /\ left1 # <<>>
           IN IF ask2 /\ k1 > Len(coins)
              THEN [left |-> left1, right |-> st.right, mixed |-> mixed1,
                    k |-> k1, starved |-> TRUE]
              ELSE
                LET takeR == st.right # <<>> /\ (left1 = <<>> \/ coins[k1])
                IN [left |-> left1,
                    right |-> IF takeR THEN Tail(st.right) ELSE st.right,
                    mixed |-> IF takeR THEN Append(mixed1, Head(st.right))
                                       ELSE mixed1,
                    k |-> IF ask2 THEN k1 + 1 ELSE k1,
                    starved |-> FALSE]

\* One pass of the body of the while loop of RiffleShuffle.shuffle, on
\* st = [left, right, mixed, k, starved]; coins[k] is the outcome of the k-th
\* evaluation of random.random() < 0.5, which Python evaluates only when
\* both lists are non-empty.  A pass that needs an outcome coins does not
\* hold sets starved and stops there; after the loop's end (both lists
\* empty) or starved, a pass changes nothing.
RiffleBody(st, coins) ==
    IF st.starved \/ (st.left = <<>> /\ st.right = <<>>) THEN st
    ELSE
      LET ask1 == st.left # <<>> /\ st.right # <<>>
      IN IF ask1 /\ st.k > Len(coins) THEN [st EXCEPT !.starved = TRUE]
         ELSE
           LET takeL == st.left # <<>> /\ (st.right = <<>> \/ coins[st.k])
               k1 == IF ask1 THEN st.k + 1 ELSE st.k
               left1 == IF takeL THEN Tail(st.left) ELSE st.left
               mixed1 == IF takeL THEN Append(st.mixed, Head(st.left))
                                  ELSE st.mixed
               ask2 == st.right # <<>> /\ left1 # <<>>
           IN IF ask2 /\ k1 > Len(coins)
              THEN [left |-> left1, right |-> st.right, mixed |-> mixed1,
                    k |-> k1, starved |-> TRUE]
              ELSE
                LET takeR == st.right # <<>> /\ (left1 = <<>> \/ coins[k1])
                IN [left |-> left1,
                    right |-> IF takeR THEN Tail(st.right) ELSE st.right,
                    mixed |-> IF takeR THEN Append(mixed1, Head(st.right))
                                       ELSE mixed1,
                    k |-> IF ask2 THEN k1 + 1 ELSE k1,
                    starved |-> FALSE]

\* passes of the while loop, `passes` of them: the first half of them, then
\* the rest (the recursion is as deep as log2 of the number of passes)
RECURSIVE RiffleLoop(_, _, _)
RiffleLoop(st, coins, passes) ==
    IF passes = 0 THEN st
    ELSE IF passes = 1 THEN RiffleBody(st, coins)
    ELSE LET first == RiffleLoop(st, coins, passes \div 2)
         IN IF first.starved THEN first
            ELSE RiffleLoop(first, coins, passes - passes \div 2)

\* left, right = cards[: len(cards) // 2], cards[len(cards) // 2 :]
RiffleSplit(cards) ==
    [left |-> SubSeq(cards, 1, Len(cards) \div 2),
     right |-> SubSeq(cards, Len(cards) \div 2 + 1, Len(cards))]

\* RiffleShuffle.shuffle: the slices and mixed are new lists.  Every pass
\* that does not end the loop takes a card or uses an outcome, so
\* Len(cards) + Len(coins) passes reach the loop's end or starve.
RiffleShuffle(mem, src, coins) ==
    LET h == RiffleSplit(mem[src])
        r == RiffleLoop([left |-> h.left, right |-> h.right, mixed |-> <<>>,
                         k |-> 1, starved |-> FALSE],
                        coins, Len(mem[src]) + Len(coins))
    IN [mem |-> [mem EXCEPT !.new = r.mixed], ref |-> "new",
        raised |-> "none", done |-> ~r.starved]

\* the body of the for loop of FisherYatesShuffle.shuffle at index i;
\* js[k] is the value of the k-th random.randint(0, i), drawn at
\* i = len(result) - k
FisherYatesBody(result, i, js) == Swap(result, i, js[Len(result) - i])

\* the for loop from index hi down to index lo: the upper half of the
\* indices, then the lower half
RECURSIVE FisherYatesLoop(_, _, _, _)
FisherYatesLoop(result, hi, lo, js) ==
    IF hi < lo THEN result
    ELSE IF hi = lo THEN FisherYatesBody(result, hi, js)
    ELSE LET mid == (hi + lo) \div 2
             upper == FisherYatesLoop(result, hi, mid + 1, js)
         IN IF Len(upper) = Len(result)  \* a swap keeps the length
            THEN FisherYatesLoop(upper, mid, lo, js)
            ELSE upper

\* FisherYatesShuffle.shuffle: for i in range(len(result) - 1, 0, -1)
FisherYatesShuffle(mem, src, js) ==
    LET c == ListCopy(mem, src)
        result == c.mem[c.ref]
    IN [mem |-> [c.mem EXCEPT ![c.ref] =
                    FisherYatesLoop(result, Len(result) - 1, 1, js)],
        ref |-> c.ref, raised |-> "none"]

\* the for loop of WeakShuffle.shuffle; picks[k] = <<i, j>> are the values
\* of the two random.randrange(len(result)) of iteration k.
\* random.randrange(0) raises ValueError.
RECURSIVE WeakLoop(_, _, _, _)
WeakLoop(result, swaps, picks, k) ==
    IF k > swaps THEN [result |-> result, raised |-> "none"]
    ELSE IF Len(result) = 0
         THEN [result |-> result, raised |-> "ValueError: empty range"]
         ELSE WeakLoop(Swap(result, picks[k][1], picks[k][2]),
                       swaps, picks, k + 1)

WeakShuffle(mem, src, swaps, picks) ==
    LET c == ListCopy(mem, src)
        w == WeakLoop(c.mem[c.ref], swaps, picks, 1)
    IN [mem |-> [c.mem EXCEPT ![c.ref] = w.result],
        ref |-> IF w.raised = "none" THEN c.ref ELSE "none",
        raised |-> w.raised]

----------------------------------------------------------------------------
(* The outcomes of the module random that one call can draw *)

\* random.shuffle on n elements: every order
Orders(n) == {p \in [1..n -> 1..n] : \A a, b \in 1..n : p[a] = p[b] => a = b}

\* random.random() < 0.5, MaxCoins times
CoinTapes == [1..MaxCoins -> BOOLEAN]

\* (variant of RandintTapes: j is drawn from 0..i-1, the index i excluded)
RandintTapesExclusive(n) ==
    {js \in [1..(n - 1) -> 0..(n - 1)] : \A k \in 1..(n - 1) : js[k] < n - k}

\* random.randint(0, i) for i = n-1 down to 1: both ends included
RandintTapes(n) ==
    {js \in [1..(n - 1) -> 0..(n - 1)] : \A k \in 1..(n - 1) : js[k] <= n - k}

\* random.randrange(n) twice per swap; nothing is drawn from an empty range
RandrangeTapes(n, swaps) ==
    IF n = 0 THEN {<<>>} ELSE [1..swaps -> (0..(n - 1)) \X (0..(n - 1))]

----------------------------------------------------------------------------
(* One call of a strategy on a caller's list, then use of the result *)

NoStrategy == [name |-> "none", swaps |-> 0]

RECURSIVE SeqsUpTo(_)
SeqsUpTo(n) ==
    IF n = 0 THEN {<<>>}
    ELSE SeqsUpTo(n - 1) \cup [1..n -> Elems]

ShInit ==
    /\ s_cards0 \in SeqsUpTo(MaxLen)
    /\ s_mem = [arg |-> s_cards0, new |-> <<>>]
    /\ s_strategy = NoStrategy
    /\ s_ref = "none"
    /\ s_raised = "none"
    /\ s_op = "init"

Returned(r, name, swaps) ==
    /\ s_mem' = r.mem
    /\ s_ref' = r.ref
    /\ s_raised' = r.raised
    /\ s_strategy' = [name |-> name, swaps |-> swaps]
    /\ s_op' = "shuffle"
    /\ UNCHANGED s_cards0

CallRandomShuffle ==
    /\ s_op = "init"
    /\ \E p \in Orders(Len(s_mem.arg)) :
          Returned(RandomShuffle(s_mem, "arg", p), "RandomShuffle", 0)
    /\ UNCHANGED <<cardVars, deckVars, gameVars>>

CallRiffleShuffle ==
    /\ s_op = "init"
    /\ \E coins \in CoinTapes :
          LET r == RiffleShuffle(s_mem, "arg", coins)
          IN r.done /\ Returned(r, "RiffleShuffle", 0)
    /\ UNCHANGED <<cardVars, deckVars, gameVars>>

CallFisherYatesShuffle ==
    /\ s_op = "init"
    /\ \E js \in RandintTapes(Len(s_mem.arg)) :
          Returned(FisherYatesShuffle(s_mem, "arg", js),
                   "FisherYatesShuffle", 0)
    /\ UNCHANGED <<cardVars, deckVars, gameVars>>

CallWeakShuffle ==
    /\ s_op = "init"
    /\ \E swaps \in 0..MaxSwaps :
          \E picks \in RandrangeTapes(Len(s_mem.arg), swaps) :
             Returned(WeakShuffle(s_mem, "arg", swaps, picks),
                      "WeakShuffle", swaps)
    /\ UNCHANGED <<cardVars, deckVars, gameVars>>

\* the caller pops the front of the returned list
PopResult ==
    /\ s_op = "shuffle"
    /\ s_ref # "none"
    /\ s_mem[s_ref] # <<>>
    /\ s_mem' = ListPop0(s_mem, s_ref)
    /\ s_op' = "pop"
    /\ UNCHANGED <<s_strategy, s_cards0, s_ref, s_raised>>
    /\ UNCHANGED <<cardVars, deckVars, gameVars>>

----------------------------------------------------------------------------
(* card.py: cards and the factory registry *)

\* class CardType
CardTypes == {"standard", "joker", "special"}

NoCard == [name |-> "None", suit |-> "None", rank |-> "None", value |-> 0]
NoObject == [cls |-> "NoneType", id |-> 0]

\* StandardCard.__init__: no argument is validated
StandardCard(suit, rank, value) ==
    [name |-> suit \o rank \o ToString(value),
     suit |-> suit, rank |-> rank, value |-> value]

\* StandardCardFactory.create_card
FactoryCreateCard(factory, suit, rank, value) == StandardCard(suit, rank, value)

\* the objects a caller can hand to register_factory: two instances of
\* StandardCardFactory and an object that is no CardFactory
TheStandardFactory == [cls |-> "StandardCardFactory", id |-> 1]
Objects == {TheStandardFactory,
            [cls |-> "StandardCardFactory", id |-> 2],
            [cls |-> "str", id |-> 3]}

\* isinstance(factory, CardFactory)
IsCardFactory(o) == o.cls = "StandardCardFactory"

\* CardFactoryManager.__init__
InitFactories == [k \in {"standard"} |-> TheStandardFactory]

\* (variant of DictGet: an unknown key gives the standard factory)
DictGetOrStandard(d, k) == IF k \in DOMAIN d THEN d[k] ELSE d["standard"]

\* self.factories.get(card_type)
DictGet(d, k) == IF k \in DOMAIN d THEN d[k] ELSE NoObject

\* CardFactoryManager.get_factory
MgrGetFactory(d, card_type) ==
    LET factory == DictGet(d, card_type)
    IN IF factory = NoObject
       THEN [factories |-> d, factory |-> NoObject,
             raised |-> "ValueError: factory not found"]
       ELSE [factories |-> d, factory |-> factory, raised |-> "none"]

\* CardFactoryManager.create_card
MgrCreateCard(d, card_type, suit, rank, value) ==
    LET factory == DictGet(d, card_type)
    IN IF factory = NoObject
       THEN [factories |-> d, factory |-> NoObject, card |-> NoCard,
             raised |-> "ValueError: factory not found"]
       ELSE [factories |-> d, factory |-> factory,
             card |-> FactoryCreateCard(factory, suit, rank, value),
             raised |-> "none"]

\* CardFactoryManager.register_factory
MgrRegisterFactory(d, card_type, factory) ==
    IF ~IsCardFactory(factory)
    THEN [factories |-> d, raised |-> "TypeError"]
    ELSE [factories |->
            [k \in DOMAIN d \cup {card_type} |->
                IF k = card_type THEN factory ELSE d[k]],
          raised |-> "none"]

\* the arguments tried: recognized and unrecognized suits and ranks,
\* positive and non-positive values
SuitArgs == {"Hearts", "Spades", "Stars"}
RankArgs == {"2", "Ace", "1"}
ValueArgs == {-1, 0, 1, 13}

NoArgs == <<"None", "None", 0>>

CardInit ==
    /\ factories = InitFactories
    /\ c_before = InitFactories
    /\ c_op = "init"
    /\ c_key = "None"
    /\ c_args = NoArgs
    /\ c_card = NoCard
    /\ c_factory = NoObject
    /\ c_raised = "none"

CallCreateCard ==
    /\ \E k \in CardTypes, suit \in SuitArgs, rank \in RankArgs,
          value \in ValueArgs :
          LET r == MgrCreateCard(factories, k, suit, rank, value)
          IN /\ factories' = r.factories
             /\ c_before' = factories
             /\ c_op' = "create_card"
             /\ c_key' = k
             /\ c_args' = <<suit, rank, value>>
             /\ c_card' = r.card
             /\ c_factory' = r.factory
             /\ c_raised' = r.raised
    /\ UNCHANGED <<shVars, deckVars, gameVars>>

CallGetFactory ==
    /\ \E k \in CardTypes :
          LET r == MgrGetFactory(factories, k)
          IN /\ factories' = r.factories
             /\ c_before' = factories
             /\ c_op' = "get_factory"
             /\ c_key' = k
             /\ c_args' = NoArgs
             /\ c_card' = NoCard
             /\ c_factory' = r.factory
             /\ c_raised' = r.raised
    /\ UNCHANGED <<shVars, deckVars, gameVars>>

CallRegisterFactory ==
    /\ \E k \in CardTypes, o \in Objects :
          LET r == MgrRegisterFactory(factories, k, o)
          IN /\ factories' = r.factories
             /\ c_before' = factories
             /\ c_op' = "register_factory"
             /\ c_key' = k
             /\ c_args' = NoArgs
             /\ c_card' = NoCard
             /\ c_factory' = o
             /\ c_raised' = r.raised
    /\ UNCHANGED <<shVars, deckVars, gameVars>>

----------------------------------------------------------------------------
(* deck.py: StandardDeck *)

\* WeakShuffle.__init__(swaps=10)
DefaultSwaps == 10

Strategies ==
    {[name |-> "RandomShuffle", swaps |-> 0],
     [name |-> "RiffleShuffle", swaps |-> 0],
     [name |-> "FisherYatesShuffle", swaps |-> 0],
     [name |-> "WeakShuffle", swaps |-> DefaultSwaps]}

\* StandardDeck.__init__: the strategy given, or RandomShuffle() for None
NewDeck(shuffle_strategy) ==
    [deck |-> <<>>,
     shuffle_strategy |-> IF shuffle_strategy = NoStrategy
                          THEN [name |-> "RandomShuffle", swaps |-> 0]
                          ELSE shuffle_strategy,
     factory |-> MgrGetFactory(InitFactories, "standard").factory]

\* (variant of DeckCard: the 0-based index is the card's value)
DeckCardZeroBased(factory, suit, ranks, value) ==
    FactoryCreateCard(factory, suit, ranks[value + 1], value)

\* card = self.factory.create_card(suit, rank, value + 1), for the pair
\* (value, rank) of enumerate(ranks)
DeckCard(factory, suit, ranks, value) ==
    FactoryCreateCard(factory, suit, ranks[value + 1], value + 1)

\* for value, rank in enumerate(ranks): ... self.deck.append(card)
RECURSIVE RankLoop(_, _, _, _, _)
RankLoop(d, factory, suit, ranks, value) ==
    IF value >= Len(ranks) THEN d
    ELSE RankLoop(Append(d, DeckCard(factory, suit, ranks, value)),
                  factory, suit, ranks, value + 1)

\* for suit in suits: ...
RECURSIVE SuitLoop(_, _, _, _, _)
SuitLoop(d, factory, suits, ranks, s) ==
    IF s > Len(suits) THEN d
    ELSE SuitLoop(RankLoop(d, factory, suits[s], ranks, 0),
                  factory, suits, ranks, s + 1)

\* StandardDeck.create_deck: appends to self.deck, validates nothing
CreateDeck(d, factory, suits, ranks) ==
    [deck |-> SuitLoop(d, factory, suits, ranks, 1), raised |-> "none"]

\* self.shuffle_strategy.shuffle(cards), with the random outcomes in tape
Shuffle(strat, mem, src, tape) ==
    CASE strat.name = "RandomShuffle" ->
           [done |-> TRUE] @@ RandomShuffle(mem, src, tape)
      [] strat.name = "RiffleShuffle" -> RiffleShuffle(mem, src, tape)
      [] strat.name = "FisherYatesShuffle" ->
           [done |-> TRUE] @@ FisherYatesShuffle(mem, src, tape)
      [] strat.name = "WeakShuffle" ->
           [done |-> TRUE] @@ WeakShuffle(mem, src, strat.swaps, tape)

\* StandardDeck.shuffle_deck
ShuffleDeck(d, strat, tape) ==
    Shuffle(strat, [arg |-> d, new |-> <<>>], "arg", tape)

\* StandardDeck.get_game_deck
GetGameDeck(d, strat, tape) == ShuffleDeck(d, strat, tape)

\* StandardDeck.get_current_card
GetCurrentCard(d, strat, tape) ==
    LET r == GetGameDeck(d, strat, tape)
    IN IF r.raised # "none"
       THEN [mem |-> r.mem, card |-> NoCard, raised |-> r.raised,
             done |-> r.done]
       ELSE IF r.mem[r.ref] = <<>>
       THEN [mem |-> r.mem, card |-> NoCard,
             raised |-> "ValueError: Deck is empty", done |-> r.done]
       ELSE [mem |-> ListPop0(r.mem, r.ref), card |-> Head(r.mem[r.ref]),
             raised |-> "none", done |-> r.done]

\* The random outcomes tried on a deck of n cards: for m in 0..MaxPick,
\*   random.shuffle: the rotation by m;
\*   RiffleShuffle: every draw TRUE, or left half first, or right half first;
\*   FisherYatesShuffle: j = i at every index but i = m, where j = 0;
\*   WeakShuffle: the first swap is (0, m), the others are (0, 0).
DeckTapes(strat, n) ==
    LET ms == {m \in 0..MaxPick : m < n}
    IN CASE strat.name = "RandomShuffle" ->
              IF n = 0 THEN {<<>>}
              ELSE {[i \in 1..n |-> ((i - 1 + m) % n) + 1] : m \in ms}
         [] strat.name = "RiffleShuffle" ->
              {[k \in 1..(2 * n) |-> TRUE],
               [k \in 1..(2 * n) |-> k % 2 = 1],
               [k \in 1..(2 * n) |-> k % 2 = 0]}
         [] strat.name = "FisherYatesShuffle" ->
              IF n <= 1 THEN {<<>>}
              ELSE {[k \in 1..(n - 1) |-> IF n - k = m THEN 0 ELSE n - k] :
                      m \in ms}
         [] strat.name = "WeakShuffle" ->
              IF n = 0 THEN {<<>>}
              ELSE {[k \in 1..strat.swaps |->
                        IF k = 1 THEN <<0, m>> ELSE <<0, 0>>] : m \in ms}

\* the (suits, ranks) arguments tried for create_deck
CreateArgs ==
    {<<<<>>, RANKS>>,
     <<SUITS, <<>>>>,
     <<<<"Hearts">>, <<"2", "3", "Ace">>>>,
     <<SUITS, RANKS>>}

DeckInit ==
    /\ \E a \in Strategies \cup {NoStrategy} :
          /\ deck = NewDeck(a).deck
          /\ strategy = NewDeck(a).shuffle_strategy
    /\ game_deck = <<>>
    /\ card = NoCard
    /\ drawn = <<>>
    /\ created = <<>>
    /\ fresh = FALSE
    /\ raised = "none"
    /\ op = "init"

CallCreateDeck ==
    /\ Len(created) < MaxCreates
    /\ \E a \in CreateArgs :
          LET r == CreateDeck(deck, NewDeck(strategy).factory, a[1], a[2])
          IN /\ deck' = r.deck
             /\ raised' = r.raised
             /\ created' = Append(created, a)
    /\ fresh' = (created = <<>>)
    /\ drawn' = <<>>
    /\ op' = "create_deck"
    /\ UNCHANGED <<strategy, game_deck, card>>
    /\ UNCHANGED <<shVars, cardVars, gameVars>>

CallShuffleDeck ==
    /\ \E tape \in DeckTapes(strategy, Len(deck)) :
          LET r == ShuffleDeck(deck, strategy, tape)
          IN /\ r.done
             /\ deck' = r.mem.arg
             /\ game_deck' = IF r.raised = "none" THEN r.mem[r.ref]
                                                   ELSE game_deck
             /\ raised' = r.raised
    /\ fresh' = FALSE
    /\ drawn' = <<>>
    /\ op' = "shuffle_deck"
    /\ UNCHANGED <<strategy, card, created>>
    /\ UNCHANGED <<shVars, cardVars, gameVars>>

CallGetGameDeck ==
    /\ \E tape \in DeckTapes(strategy, Len(deck)) :
          LET r == GetGameDeck(deck, strategy, tape)
          IN /\ r.done
             /\ deck' = r.mem.arg
             /\ game_deck' = IF r.raised = "none" THEN r.mem[r.ref]
                                                   ELSE game_deck
             /\ raised' = r.raised
    /\ fresh' = FALSE
    /\ drawn' = <<>>
    /\ op' = "get_game_deck"
    /\ UNCHANGED <<strategy, card, created>>
    /\ UNCHANGED <<shVars, cardVars, gameVars>>

\* drawn records the cards returned by the get_current_card calls made in a
\* row on a deck that create_deck has just filled for the first time
CallGetCurrentCard ==
    /\ fresh => Len(drawn) < MaxDraws
    /\ \E tape \in DeckTapes(strategy, Len(deck)) :
          LET r == GetCurrentCard(deck, strategy, tape)
          IN /\ r.done
             /\ deck' = r.mem.arg
             /\ card' = r.card
             /\ drawn' = IF fresh /\ r.raised = "none"
                         THEN Append(drawn, r.card)
                         ELSE drawn
             /\ raised' = r.raised
    /\ op' = "get_current_card"
    /\ UNCHANGED <<strategy, game_deck, created, fresh>>
    /\ UNCHANGED <<shVars, cardVars, gameVars>>

----------------------------------------------------------------------------
(* game.py and procedure_game.py: the two game loops *)

NCARDS == 8

NoDict == [suit |-> "None", rank |-> "None", value |-> 0]

\* StandardCard.get_card
GetCard(c) == [suit |-> c.suit, rank |-> c.rank, value |-> c.value]

\* the test of the answer against the two cards, and the new SCORE
NewScore(sc, answer, nextValue, currentValue) ==
    IF (answer = "h" /\ nextValue > currentValue)
       \/ (answer = "l" /\ nextValue < currentValue)
    THEN sc + 20
    ELSE sc - 15

\* what input(...).lower() can be: the two answers and an invalid one
Answers == {"h", "l", "x"}

\* game.py: shuffle_strategy = FisherYatesShuffle()
GameStrategy == [name |-> "FisherYatesShuffle", swaps |-> 0]

\* game.py, lines 15-17: the deck is built and get_game_deck() is kept
G_Start ==
    /\ g_prog = "game.py" /\ g_pc = "start"
    /\ LET d0 == NewDeck(GameStrategy)
           c == CreateDeck(d0.deck, d0.factory, SUITS, RANKS)
       IN \E tape \in DeckTapes(d0.shuffle_strategy, Len(c.deck)) :
             LET r == GetGameDeck(c.deck, d0.shuffle_strategy, tape)
             IN /\ deck' = r.mem.arg
                /\ strategy' = d0.shuffle_strategy
                /\ game_deck' = r.mem[r.ref]
    /\ g_pc' = "while"
    /\ UNCHANGED <<g_prog, SCORE, g_i, currentCard, deckGame, n_drawn,
                   n_asked>>
    /\ UNCHANGED <<card, drawn, created, fresh, raised, op>>
    /\ UNCHANGED <<shVars, cardVars>>

\* game.py, lines 18-23: the head of a pass of `while True`
G_While ==
    /\ g_prog = "game.py" /\ g_pc = "while"
    /\ IF game_deck # <<>>
       THEN \E tape \in DeckTapes(strategy, Len(deck)) :
               LET r == GetCurrentCard(deck, strategy, tape)
               IN /\ deck' = r.mem.arg
                  /\ raised' = r.raised
                  /\ currentCard' = IF r.raised = "none" THEN GetCard(r.card)
                                                         ELSE currentCard
                  /\ n_drawn' = IF r.raised = "none" THEN n_drawn + 1
                                                     ELSE n_drawn
                  /\ g_pc' = IF r.raised = "none" THEN "for" ELSE "crashed"
       ELSE /\ g_pc' = "for"
            /\ UNCHANGED <<deck, raised, currentCard, n_drawn>>
    /\ g_i' = 0
    /\ UNCHANGED <<g_prog, SCORE, deckGame, n_asked>>
    /\ UNCHANGED <<strategy, game_deck, card, drawn, created, fresh, op>>
    /\ UNCHANGED <<shVars, cardVars>>

\* where a pass of `for i in range(NCARDS)` that ends normally goes on
AfterPass(i) == IF i + 1 < NCARDS THEN "for" ELSE "while"

\* game.py, lines 23-47: one pass of the for loop.  Both break statements
\* leave the for loop only; `while True` then starts its next pass.
G_Turn ==
    /\ g_prog = "game.py" /\ g_pc = "for"
    /\ n_asked < MaxAsked
    /\ n_asked' = n_asked + 1
    /\ g_i' = g_i + 1
    /\ \E answer \in Answers :
          IF answer \notin {"h", "l"}
          THEN /\ g_pc' = AfterPass(g_i)
               /\ UNCHANGED <<deck, raised, currentCard, n_drawn, SCORE>>
          ELSE \E tape \in DeckTapes(strategy, Len(deck)) :
                  LET r == GetCurrentCard(deck, strategy, tape)
                      nextCard == GetCard(r.card)
                      sc == NewScore(SCORE, answer, nextCard.value,
                                     currentCard.value)
                  IN /\ deck' = r.mem.arg
                     /\ raised' = r.raised
                     /\ IF r.raised # "none"
                        THEN /\ g_pc' = "crashed"
                             /\ UNCHANGED <<currentCard, n_drawn, SCORE>>
                        ELSE /\ n_drawn' = n_drawn + 1
                             /\ SCORE' = sc
                             /\ currentCard' = nextCard
                             /\ g_pc' = IF sc <= 0 THEN "while"
                                        ELSE IF Len(game_deck) < NCARDS
                                             THEN "while"
                                             ELSE AfterPass(g_i)
    /\ UNCHANGED <<g_prog, deckGame>>
    /\ UNCHANGED <<strategy, game_deck, card, drawn, created, fresh, op>>
    /\ UNCHANGED <<shVars, cardVars>>

\* procedure_game.py; the suits' names are written in Latin letters here
SUIT_TUPLE == <<"Piki", "Chervi", "Kresti", "Bubi">>
RANK_TUPLE == <<"2", "3", "4", "5", "6", "7", "8", "9", "10",
                "J", "Q", "K", "A">>

\* createDeck: the inner loop over enumerate(RANK_TUPLE)
RECURSIVE createDeckRanks(_, _, _)
createDeckRanks(deckList, suit, value) ==
    IF value >= Len(RANK_TUPLE) THEN deckList
    ELSE createDeckRanks(
           Append(deckList, [rank |-> RANK_TUPLE[value + 1], suit |-> suit,
                             value |-> value + 1]),
           suit, value + 1)

\* createDeck: the outer loop over SUIT_TUPLE
RECURSIVE createDeckSuits(_, _)
createDeckSuits(deckList, s) ==
    IF s > Len(SUIT_TUPLE) THEN deckList
    ELSE createDeckSuits(createDeckRanks(deckList, SUIT_TUPLE[s], 0), s + 1)

createDeck == createDeckSuits(<<>>, 1)

\* shuffleDeck: a copy, rearranged by random.shuffle into the order p
shuffleDeck(deckListIn, p) ==
    LET c == ListCopy([arg |-> deckListIn, new |-> <<>>], "arg")
        deckListOut == c.mem[c.ref]
    IN [i \in 1..Len(deckListOut) |-> deckListOut[p[i]]]

\* getCards: deckListIn.pop(0)
getCards(deckListIn) ==
    [thisCard |-> Head(deckListIn), deckListIn |-> Tail(deckListIn)]

\* procedure_game.py, lines 37-52: the head of a pass of `while True`
P_While ==
    /\ g_prog = "procedure_game.py" /\ g_pc = "while"
    /\ \E p \in DeckTapes([name |-> "RandomShuffle", swaps |-> 0],
                          Len(createDeck)) :
          LET g == getCards(shuffleDeck(createDeck, p))
          IN /\ deckGame' = g.deckListIn
             /\ currentCard' = g.thisCard
             /\ g_pc' = IF SCORE <= 0 THEN "done"
                        ELSE IF Len(g.deckListIn) < NCARDS THEN "done"
                        ELSE "for"
    /\ n_drawn' = n_drawn + 1
    /\ g_i' = 0
    /\ UNCHANGED <<g_prog, SCORE, n_asked>>
    /\ UNCHANGED <<shVars, cardVars, deckVars>>

\* procedure_game.py, lines 52-80: one pass of the for loop, which has no
\* break
P_Turn ==
    /\ g_prog = "procedure_game.py" /\ g_pc = "for"
    /\ n_asked < MaxAsked
    /\ n_asked' = n_asked + 1
    /\ g_i' = g_i + 1
    /\ g_pc' = AfterPass(g_i)
    /\ \E answer \in Answers :
          IF answer \notin {"h", "l"}
          THEN UNCHANGED <<deckGame, currentCard, n_drawn, SCORE>>
          ELSE LET g == getCards(deckGame)
                   nextCard == g.thisCard
               IN /\ deckGame' = g.deckListIn
                  /\ n_drawn' = n_drawn + 1
                  /\ SCORE' = NewScore(SCORE, answer, nextCard.value,
                                       currentCard.value)
                  /\ currentCard' = nextCard
    /\ UNCHANGED g_prog
    /\ UNCHANGED <<shVars, cardVars, deckVars>>

(* the state both programs start in: SCORE = 50 *)
GameInit ==
    /\ g_prog \in {"game.py", "procedure_game.py"}
    /\ g_pc = IF g_prog = "game.py" THEN "start" ELSE "while"
    /\ SCORE = 50
    /\ g_i = 0
    /\ currentCard = NoDict
    /\ deckGame = <<>>
    /\ n_drawn = 0
    /\ n_asked = 0

GameIdle ==
    /\ g_prog = "none" /\ g_pc = "idle" /\ SCORE = 50 /\ g_i = 0
    /\ currentCard = NoDict /\ deckGame = <<>> /\ n_drawn = 0 /\ n_asked = 0

----------------------------------------------------------------------------
(* Specifications *)

ShIdle ==
    /\ s_cards0 = <<>> /\ s_mem = [arg |-> <<>>, new |-> <<>>]
    /\ s_strategy = NoStrategy /\ s_ref = "none" /\ s_raised = "none"
    /\ s_op = "idle"

DeckIdle ==
    /\ deck = <<>> /\ strategy = NoStrategy /\ game_deck = <<>>
    /\ card = NoCard /\ drawn = <<>> /\ created = <<>> /\ fresh = FALSE
    /\ raised = "none" /\ op = "idle"

\* one StandardDeck under any sequence of its four methods
Init == ShIdle /\ CardInit /\ DeckInit /\ GameIdle

Next ==
    \/ CallCreateDeck
    \/ CallShuffleDeck
    \/ CallGetGameDeck
    \/ CallGetCurrentCard

Spec == Init /\ [][Next]_vars

\* one call of one shuffle strategy on one list
InitShuffle == ShInit /\ CardInit /\ DeckIdle /\ GameIdle

ShNext ==
    \/ CallRandomShuffle
    \/ CallRiffleShuffle
    \/ CallFisherYatesShuffle
    \/ CallWeakShuffle
    \/ PopResult

SpecShuffle == InitShuffle /\ [][ShNext]_vars

\* one CardFactoryManager under any sequence of its methods
InitCard == ShIdle /\ CardInit /\ DeckIdle /\ GameIdle

CardNext ==
    \/ CallCreateCard
    \/ CallGetFactory
    \/ CallRegisterFactory

SpecCard == InitCard /\ [][CardNext]_vars

\* one run of one of the two game programs
InitGame == ShIdle /\ CardInit /\ DeckIdle /\ GameInit

GameNext ==
    \/ G_Start
    \/ G_While
    \/ G_Turn
    \/ P_While
    \/ P_Turn

SpecGame == InitGame /\ [][GameNext]_vars

----------------------------------------------------------------------------
(* The properties *)

\* the number of cards the first create_deck call was asked for
FirstDeckSize == Len(created[1][1]) * Len(created[1][2])

NoTwoEqual(s) == \A i, j \in DOMAIN s : i # j => s[i] # s[j]

\* C1: get_current_card called n times in a row on a freshly created deck
\* of n >= 1 cards returns n pairwise distinct cards, and the call after
\* them fails with "Deck is empty" instead of returning a card: never more
\* than n cards are returned, no two of them are equal, and a call that
\* fails fails with "Deck is empty" after exactly n cards.
C1_FreshDeckDrawsDistinctThenEmpty ==
    (fresh /\ FirstDeckSize >= 1) =>
        /\ NoTwoEqual(drawn)
        /\ Len(drawn) <= FirstDeckSize
        /\ (op = "get_current_card" /\ raised # "none") =>
              (raised = "ValueError: Deck is empty"
               /\ Len(drawn) = FirstDeckSize)

\* C2: every strategy returns, for every input list (the empty one and
\* those with repeated elements included), a list of the same length and
\* the same multiset of elements, and raises nothing.
C2_ShufflePreservesMultiset ==
    s_op = "shuffle" =>
        /\ s_raised = "none"
        /\ Len(s_mem[s_ref]) = Len(s_cards0)
        /\ Multiset(s_mem[s_ref]) = Multiset(s_cards0)

\* C3: whatever sequence of create_deck(SUITS, RANKS), shuffle_deck,
\* get_game_deck and get_current_card calls one deck has seen, its list
\* holds no two cards of the same suit and rank.
C3_NoDuplicateSuitRank ==
    (\A c \in DOMAIN created : created[c] = <<SUITS, RANKS>>) =>
        \A i, j \in DOMAIN deck :
            i # j => ~(deck[i].suit = deck[j].suit
                       /\ deck[i].rank = deck[j].rank)

\* C4: after create_deck(suits, ranks) on a new deck, the deck holds
\* |suits| * |ranks| cards, and the card at 0-based position s*|ranks| + r
\* has suit suits[s], rank ranks[r] and value r + 1.
C4_CreateDeckOrder ==
    (op = "create_deck" /\ Len(created) = 1) =>
        LET suits == created[1][1]
            ranks == created[1][2]
        IN /\ Len(deck) = Len(suits) * Len(ranks)
           /\ \A s \in 0..(Len(suits) - 1), r \in 0..(Len(ranks) - 1) :
                 LET c == deck[s * Len(ranks) + r + 1]
                 IN /\ c.suit = suits[s + 1]
                    /\ c.rank = ranks[r + 1]
                    /\ c.value = r + 1

\* the standard deck right after its creation: 52 cards, the 14th is the
\* first of the second suit and the last is the Ace of Spades
C4_Witness ==
    /\ op = "create_deck"
    /\ created = << <<SUITS, RANKS>> >>
    /\ Len(deck) = 52
    /\ deck[14] = [name |-> "Diamonds21", suit |-> "Diamonds",
                   rank |-> "2", value |-> 1]
    /\ deck[52] = [name |-> "SpadesAce13", suit |-> "Spades",
                   rank |-> "Ace", value |-> 13]

\* C5: create_deck fails with InvalidArgument when suits is empty or ranks
\* is empty, instead of leaving a deck without cards.
C5_EmptyArgumentsRejected ==
    (op = "create_deck"
     /\ (created[Len(created)][1] = <<>> \/ created[Len(created)][2] = <<>>))
        => raised = "InvalidArgument"

\* C6: after a shuffle call, and after the caller has popped the front of
\* the returned list, the caller's input list holds what it held before the
\* call, and the returned list is not the input list object.
C6_ShuffleLeavesInput ==
    s_op \in {"shuffle", "pop"} =>
        /\ s_mem.arg = s_cards0
        /\ s_ref # "arg"

\* a shuffle changed the order, the caller popped the result, and the
\* input is as it was
C6_Witness ==
    /\ s_op = "pop"
    /\ s_strategy.name = "FisherYatesShuffle"
    /\ s_cards0 = <<"a", "b", "c">>
    /\ s_mem[s_ref] = <<"a", "b">>
    /\ s_mem.arg = s_cards0

\* C7: create_card(suit, rank, value) fails with InvalidArgument and makes
\* no card when suit is no recognized suit, rank no recognized rank or
\* value <= 0; otherwise it returns a card with that suit, rank and value.
C7_InvalidCardRejected ==
    (c_op = "create_card" /\ c_key \in DOMAIN c_before) =>
        IF c_args[1] \notin Range(SUITS) \/ c_args[2] \notin Range(RANKS)
           \/ c_args[3] <= 0
        THEN c_raised = "InvalidArgument" /\ c_card = NoCard
        ELSE /\ c_raised = "none"
             /\ c_card.suit = c_args[1]
             /\ c_card.rank = c_args[2]
             /\ c_card.value = c_args[3]

\* C8: create_card and get_factory fail with the factory-not-found error
\* for a key that is not registered and leave the registry as it was; for a
\* registered key they succeed with the factory stored under that key.
C8_FactorySelection ==
    c_op \in {"create_card", "get_factory"} =>
        /\ factories = c_before
        /\ IF c_key \in DOMAIN c_before
           THEN c_raised = "none" /\ c_factory = c_before[c_key]
           ELSE /\ c_raised = "ValueError: factory not found"
                /\ c_factory = NoObject
                /\ c_card = NoCard

\* a factory was registered under "joker" and is the one get_factory
\* returns, while "special" is still unknown
C8_Witness ==
    /\ c_op = "get_factory"
    /\ c_key = "joker"
    /\ c_raised = "none"
    /\ c_factory = [cls |-> "StandardCardFactory", id |-> 2]
    /\ DOMAIN factories = {"standard", "joker"}

\* the deck the loop tests has fewer than NCARDS cards
DeckRunsOut ==
    \/ g_prog = "game.py" /\ g_pc \in {"while", "for"}
       /\ Len(game_deck) < NCARDS
    \/ g_prog = "procedure_game.py" /\ g_pc = "for"
       /\ Len(deckGame) < NCARDS

\* C9: in both game loops, once SCORE is 0 or less or the deck has fewer
\* than NCARDS cards left, no further card is drawn and no further question
\* is asked.
C9_NoPlayAfterGameOver ==
    [][(SCORE <= 0 \/ DeckRunsOut) =>
          (n_drawn' = n_drawn /\ n_asked' = n_asked)]_vars

\* out is an interleaving of l and r: both keep their order in out
RECURSIVE IsInterleaving(_, _, _)
IsInterleaving(out, l, r) ==
    IF out = <<>> THEN l = <<>> /\ r = <<>>
    ELSE \/ l # <<>> /\ Head(l) = Head(out)
            /\ IsInterleaving(Tail(out), Tail(l), r)
         \/ r # <<>> /\ Head(r) = Head(out)
            /\ IsInterleaving(Tail(out), l, Tail(r))

\* C10: RiffleShuffle returns, whatever the random outcomes, all elements
\* of the input, as an interleaving of the input's first len // 2 elements
\* and the rest, each part in its original order.
C10_RiffleInterleaves ==
    (s_op = "shuffle" /\ s_strategy.name = "RiffleShuffle") =>
        LET n == Len(s_cards0)
        IN /\ Len(s_mem[s_ref]) = n
           /\ IsInterleaving(s_mem[s_ref], SubSeq(s_cards0, 1, n \div 2),
                             SubSeq(s_cards0, n \div 2 + 1, n))

\* a left half of two cards and a right half of two: the right half's
\* first card came first, and the two cards of the left half came in their
\* order with the right half's second card between them
C10_Witness ==
    /\ s_op = "shuffle"
    /\ s_strategy.name = "RiffleShuffle"
    /\ s_cards0 = <<"a", "b", "c", "c">>
    /\ s_mem[s_ref] = <<"c", "a", "c", "b">>

\* n!
RECURSIVE Factorial(_)
Factorial(n) == IF n <= 1 THEN 1 ELSE n * Factorial(n - 1)

\* the lists FisherYatesShuffle can return for the input cards, one for
\* every sequence of values random.randint(0, i) can return for
\* i = len - 1 down to 1
FisherYatesOutputs(cards) ==
    {LET r == FisherYatesShuffle([arg |-> cards, new |-> <<>>], "arg", js)
     IN r.mem[r.ref] : js \in RandintTapes(Len(cards))}

\* C11: FisherYatesShuffle swaps the element at i, for i from the last
\* index down to 1, with the element at a j drawn from 0..i.  Hence on n
\* distinct elements the lists it can return are exactly the n!
\* permutations of the input, each returned for exactly one sequence of
\* values of j; and the list a call returned is one of them, returned for
\* exactly one sequence when the input's elements are distinct.
C11_FisherYatesAllPermutations ==
    (s_op = "shuffle" /\ s_strategy.name = "FisherYatesShuffle") =>
        LET n == Len(s_cards0)
            ids == [i \in 1..n |-> i]
            outs == FisherYatesOutputs(ids)
        IN /\ outs = Orders(n)
           /\ Cardinality(outs) = Factorial(n)
           /\ Cardinality(RandintTapes(n)) = Cardinality(outs)
           /\ s_mem[s_ref] \in FisherYatesOutputs(s_cards0)
           /\ NoTwoEqual(s_cards0) =>
                 Cardinality(
                   {js \in RandintTapes(n) :
                      FisherYatesShuffle([arg |-> s_cards0, new |-> <<>>],
                                         "arg", js).mem.new = s_mem[s_ref]})
                 = 1

\* three distinct elements came back rotated
C11_Witness ==
    /\ s_op = "shuffle"
    /\ s_strategy.name = "FisherYatesShuffle"
    /\ s_cards0 = <<"a", "b", "c">>
    /\ s_mem[s_ref] = <<"b", "c", "a">>

====
